---- MODULE Spec2Model ----
(***************************************************************************)
(* Model of the FlexiDraw review service (src/review_service/main.py).     *)
(*                                                                         *)
(* Python values are represented as follows.                               *)
(*   Optional[T]   a sequence of length at most one: None is <<>> and a    *)
(*                 present value x is <<x>>.                               *)
(*   bytes         a sequence of integers in 0..255.                       *)
(*   str           error messages and configuration strings are TLA+       *)
(*                 strings; texts that are concatenated or stripped (the   *)
(*                 model's HTML, the data URL) are sequences of tokens,    *)
(*                 where the tokens " ", "\n" and "\t" are whitespace.     *)
(*   exception     a record carrying the message that str(e) returns.      *)
(***************************************************************************)
EXTENDS Integers, Sequences, FiniteSets, TLC

\* Number of HTTP requests the model follows (each is handled once).
NumRequests == 2

Req == 1..NumRequests

VARIABLES
    MODEL,           \* module global MODEL
    OPENAI_API_KEY,  \* module global OPENAI_API_KEY (Optional[str])
    client,          \* module global client (Optional[OpenAI])
    pc,              \* per request: "idle", "reading" (suspended at await image.read()), "done"
    route,           \* per request: "none", "ping", "healthz", "review"
    upload,          \* per request: what the request carries in its `image` field
    reads,           \* per request: number of completed image.read() calls
    calls,           \* per request: payloads sent to client.chat.completions.create
    reply,           \* per request: outcome of the request's own collaborator call
    response         \* per request: responses sent to the caller

vars == <<MODEL, OPENAI_API_KEY, client, pc, route, upload, reads, calls, reply, response>>

None == <<>>
Some(x) == <<x>>

\* Python truthiness of an Optional[str]: None and "" are falsy.
TruthyStr(o) == o /= None /\ o[1] /= ""

\* Python truthiness of an Optional[str] whose text is a token sequence.
TruthyText(o) == o /= None /\ Len(o[1]) > 0

-----------------------------------------------------------------------------
(* Startup: lines 19-28.                                                   *)

DefaultModel == "gpt-4o-mini"

\* os.getenv(name, default)
Getenv(value, default) == IF value = None THEN default ELSE value[1]

EnvKeys == {None, Some(""), Some("sk-test")}
EnvModels == {None, Some("gpt-4o")}

\* try: ... client = OpenAI(api_key=OPENAI_API_KEY)  except Exception: client = None
\* ctorRaises: whether the OpenAI(...) constructor raises.
InitClient(key, ctorRaises) ==
    IF ~TruthyStr(key) THEN None
    ELSE IF ctorRaises THEN None
    ELSE Some([api_key |-> key[1]])

-----------------------------------------------------------------------------
(* Request inputs and collaborator outcomes.                               *)

NoUpload == [kind |-> "none", data |-> <<>>, msg |-> ""]
\* a multipart request without the `image` field
NoField == [kind |-> "nofield", data |-> <<>>, msg |-> ""]
\* an upload whose read() raises
UnreadableUpload == [kind |-> "raises", data |-> <<>>, msg |-> "I/O operation on closed file."]
BytesUpload(b) == [kind |-> "bytes", data |-> b, msg |-> ""]

\* b"not an image"
NotAnImage == <<110, 111, 116, 32, 97, 110, 32, 105, 109, 97, 103, 101>>

-----------------------------------------------------------------------------
(* Image normalisation: ensure_png, lines 39-46.                           *)
(*                                                                         *)
(* An image file is modelled as a container signature followed by a three  *)
(* byte header <<pixel format, width, height>>; pixel data is left out.    *)
(* PNG pixel formats: 2 (RGB), 6 (RGBA).  BMP pixel formats: 24 (RGB),     *)
(* 32 (RGBA).                                                              *)

PngMagic == <<137, 80, 78, 71>>
BmpMagic == <<66, 77>>

HasPrefix(data, m) == Len(data) >= Len(m) /\ SubSeq(data, 1, Len(m)) = m

Header(data, m) == SubSeq(data, Len(m) + 1, Len(data))

\* Image.open(io.BytesIO(data)): Some(image), or None when PIL raises.
ImageOpen(data) ==
    IF HasPrefix(data, PngMagic) /\ Len(data) = Len(PngMagic) + 3
          /\ Header(data, PngMagic)[1] \in {2, 6}
          /\ Header(data, PngMagic)[2] > 0 /\ Header(data, PngMagic)[3] > 0
    THEN Some([format |-> "PNG",
               mode |-> IF Header(data, PngMagic)[1] = 6 THEN "RGBA" ELSE "RGB",
               width |-> Header(data, PngMagic)[2],
               height |-> Header(data, PngMagic)[3]])
    ELSE IF HasPrefix(data, BmpMagic) /\ Len(data) = Len(BmpMagic) + 3
          /\ Header(data, BmpMagic)[1] \in {24, 32}
          /\ Header(data, BmpMagic)[2] > 0 /\ Header(data, BmpMagic)[3] > 0
    THEN Some([format |-> "BMP",
               mode |-> IF Header(data, BmpMagic)[1] = 32 THEN "RGBA" ELSE "RGB",
               width |-> Header(data, BmpMagic)[2],
               height |-> Header(data, BmpMagic)[3]])
    ELSE None

\* im.convert("RGBA")
ConvertRGBA(im) == [im EXCEPT !.mode = "RGBA"]

\* im.save(out, format="PNG"); out.getvalue()
SavePng(im) ==
    PngMagic \o <<IF im.mode = "RGBA" THEN 6 ELSE 2, im.width, im.height>>

\* A plausible bug: a decode failure yields no bytes instead of the original bytes.
EnsurePng_DropsUndecodable(data) ==
    IF ImageOpen(data) = None THEN <<>> ELSE SavePng(ConvertRGBA(ImageOpen(data)[1]))

\* ensure_png(data): the except branch returns data unchanged.
EnsurePng(data) ==
    IF ImageOpen(data) = None THEN data ELSE SavePng(ConvertRGBA(ImageOpen(data)[1]))

-----------------------------------------------------------------------------
(* Transport encoding: lines 62-63.                                        *)

B64Alphabet ==
    <<
    "A", "B", "C", "D", "E", "F", "G", "H", "I", "J", "K", "L", "M", "N", "O", "P",
    "Q", "R", "S", "T", "U", "V", "W", "X", "Y", "Z", "a", "b", "c", "d", "e", "f",
    "g", "h", "i", "j", "k", "l", "m", "n", "o", "p", "q", "r", "s", "t", "u", "v",
    "w", "x", "y", "z", "0", "1", "2", "3", "4", "5", "6", "7", "8", "9", "+", "/"
    >>

B64Pad == "="

B64Char(i) == B64Alphabet[i + 1]

RECURSIVE B64Encode(_)
\* base64.b64encode(data).decode("ascii"), as a sequence of characters
B64Encode(data) ==
    IF Len(data) = 0 THEN <<>>
    ELSE IF Len(data) = 1 THEN
        <<B64Char(data[1] \div 4), B64Char((data[1] % 4) * 16), B64Pad, B64Pad>>
    ELSE IF Len(data) = 2 THEN
        <<B64Char(data[1] \div 4),
          B64Char((data[1] % 4) * 16 + data[2] \div 16),
          B64Char((data[2] % 16) * 4),
          B64Pad>>
    ELSE
        <<B64Char(data[1] \div 4),
          B64Char((data[1] % 4) * 16 + data[2] \div 16),
          B64Char((data[2] % 16) * 4 + data[3] \div 64),
          B64Char(data[3] % 64)>>
        \o B64Encode(SubSeq(data, 4, Len(data)))

DataUrlPrefix == "data:image/png;base64,"

\* f"data:image/png;base64,{b64}"
DataUrl(png) == <<DataUrlPrefix>> \o B64Encode(png)

\* the instruction text of lines 67-69 (its en dash in "1-10" written as a hyphen)
PromptText ==
    "You are an art critic. Rate this drawing from 1-10 and provide three strengths and three suggestions for improvement. Be concise and kind. Return HTML with headings and bullet lists."

\* user_content, lines 65-71
UserContent(data_url) ==
    <<[type |-> "text", text |-> PromptText, url |-> <<>>],
      [type |-> "image_url", text |-> "", url |-> data_url]>>

\* the keyword arguments of client.chat.completions.create, lines 73-77
CreateArgs(model, data_url) ==
    [model |-> model,
     messages |-> <<[role |-> "user", content |-> UserContent(data_url)]>>,
     temperature |-> "0.5"]

-----------------------------------------------------------------------------
(* Reply extraction and wrapping: lines 79-91.                             *)

\* A plausible bug: the first candidate that has content is used.
ExtractHtml_AnyCandidate(choices) ==
    LET usable == {i \in 1..Len(choices) :
                     choices[i].message /= None
                     /\ TruthyText(choices[i].message[1].content)}
    IN IF usable = {} THEN None
       ELSE choices[CHOOSE i \in usable : \A j \in usable : i <= j].message[1].content

\* html: Optional[str], lines 79-81; choices is resp.choices
ExtractHtml(choices) ==
    IF Len(choices) > 0
          /\ choices[1].message /= None
          /\ TruthyText(choices[1].message[1].content)
    THEN choices[1].message[1].content
    ELSE None

Whitespace == {" ", "\n", "\t"}

RECURSIVE LStrip(_)
LStrip(s) == IF Len(s) > 0 /\ s[1] \in Whitespace THEN LStrip(Tail(s)) ELSE s

RECURSIVE RStrip(_)
RStrip(s) ==
    IF Len(s) > 0 /\ s[Len(s)] \in Whitespace THEN RStrip(SubSeq(s, 1, Len(s) - 1)) ELSE s

\* str.strip()
Strip(s) == RStrip(LStrip(s))

Spaces(n) == [i \in 1..n |-> " "]

DivOpen ==
    "<div style=\"font-family:-apple-system,Segoe UI,Roboto,Helvetica,Arial,sans-serif;line-height:1.45;font-size:14px;\">"
DivClose == "</div>"

\* the f-string of lines 86-90, before .strip()
Template(html) ==
    <<"\n">> \o Spaces(8) \o <<DivOpen, "\n">> \o Spaces(10) \o html
    \o <<"\n">> \o Spaces(8) \o <<DivClose, "\n">> \o Spaces(8)

\* A plausible bug: the model's text is stripped before it is embedded.
Wrap_StripsHtml(html) == Strip(Template(Strip(html)))

\* wrapped, lines 86-90
Wrap(html) == Strip(Template(html))

-----------------------------------------------------------------------------
(* Responses.                                                              *)

\* lines 52-55
NotInitializedResponse ==
    [status |-> 500, body |-> [error |-> "OpenAI client not initialized. Check OPENAI_API_KEY."]]

\* line 59
EmptyUploadResponse == [status |-> 400, body |-> [error |-> "Empty image upload."]]

\* A plausible bug: an empty model reply is answered as a success without markup.
NoContentResponse_AsSuccess == [status |-> 200, body |-> [error |-> "Model returned no content."]]

\* line 84
NoContentResponse == [status |-> 502, body |-> [error |-> "Model returned no content."]]

\* A plausible bug: the caller gets a generic text instead of str(e).
ExceptionResponse_Generic(e) == [status |-> 500, body |-> [error |-> "Internal Server Error"]]

\* lines 93-95: str(e) is the exception's message
ExceptionResponse(e) == [status |-> 500, body |-> [error |-> e.msg]]

\* line 91 (a returned dict is sent with status 200)
HtmlResponse(html) == [status |-> 200, body |-> [html |-> Wrap(html)]]

\* FastAPI answers a request that lacks the required File(...) parameter itself,
\* with status 422 and a `detail` body; review() is not entered.
ValidationErrorResponse == [status |-> 422, body |-> [detail |-> "Field required"]]

\* A plausible bug: has_api_key reports whether the client is usable.
PingResponse_ClientState ==
    [status |-> 200,
     body |-> [ok |-> TRUE, model |-> MODEL, has_api_key |-> client /= None]]

\* line 32
PingResponse ==
    [status |-> 200,
     body |-> [ok |-> TRUE, model |-> MODEL, has_api_key |-> TruthyStr(OPENAI_API_KEY)]]

\* line 37
HealthzResponse == [status |-> 200, body |-> [ok |-> TRUE]]

-----------------------------------------------------------------------------
(* The collaborator: client.chat.completions.create.                       *)

NoReply == [kind |-> "none", msg |-> "", choices |-> <<>>]
Raises(m) == [kind |-> "raises", msg |-> m, choices |-> <<>>]
Returns(cs) == [kind |-> "returns", msg |-> "", choices |-> cs]

\* a candidate whose message is None
NoMessage == [message |-> None]
\* a candidate whose message has the given Optional[str] content
Candidate(content) == [message |-> Some([content |-> content])]

Content1 == <<"<h1>", "7/10", "</h1>", "\n", "<ul>", "<li>", "bold", "</li>", "</ul>">>
\* a reply with leading and trailing whitespace
Content2 == <<" ", "<p>", "ok", "</p>", "\n">>

Replies ==
    { Raises("Connection error."),
      Raises("Request timed out."),
      Returns(<<>>),
      Returns(<<NoMessage>>),
      Returns(<<Candidate(None)>>),
      Returns(<<Candidate(Some(<<>>))>>),
      Returns(<<Candidate(Some(Content1))>>),
      Returns(<<Candidate(Some(Content2))>>),
      Returns(<<Candidate(Some(<<>>)), Candidate(Some(Content1))>>) }

\* what a request can carry in its `image` field
ReviewUploads ==
    { UnreadableUpload,
      BytesUpload(<<>>),
      BytesUpload(NotAnImage),
      BytesUpload(<<137, 80, 78, 71>>),
      BytesUpload(<<66, 77, 24, 10, 10>>),
      BytesUpload(<<137, 80, 78, 71, 6, 10, 10>>) }

-----------------------------------------------------------------------------
(* Handlers.                                                               *)

\* A plausible bug: the precondition looks at the credential, not at the client.
ClientMissing_ChecksKey == ~TruthyStr(OPENAI_API_KEY)

\* A plausible bug: the client is closed after its first call.
ClientMissing_SingleUse == client = None \/ \E q \in Req : Len(calls[q]) > 0

\* line 51: client is None
ClientMissing == client = None

\* A plausible bug: the emptiness test is absent.
IsEmptyUpload_Never(blob) == FALSE

\* line 58: not blob
IsEmptyUpload(blob) == Len(blob) = 0

\* A plausible bug: the call is repeated once.
InvokeModel_Retry(log, args) == log \o <<args, args>>

\* lines 73-77: one call, appended to the request's log of calls
InvokeModel(log, args) == Append(log, args)

Respond(r, resp) == [response EXCEPT ![r] = Append(@, resp)]

Init ==
    /\ \E key \in EnvKeys, model \in EnvModels, ctorRaises \in BOOLEAN :
          /\ MODEL = Getenv(model, DefaultModel)
          /\ OPENAI_API_KEY = key
          /\ client = InitClient(key, ctorRaises)
    /\ pc = [r \in Req |-> "idle"]
    /\ route = [r \in Req |-> "none"]
    /\ upload = [r \in Req |-> NoUpload]
    /\ reads = [r \in Req |-> 0]
    /\ calls = [r \in Req |-> <<>>]
    /\ reply = [r \in Req |-> NoReply]
    /\ response = [r \in Req |-> <<>>]

\* GET /ping, lines 30-32
Ping(r) ==
    /\ pc[r] = "idle"
    /\ route' = [route EXCEPT ![r] = "ping"]
    /\ response' = Respond(r, PingResponse)
    /\ pc' = [pc EXCEPT ![r] = "done"]
    /\ UNCHANGED <<MODEL, OPENAI_API_KEY, client, upload, reads, calls, reply>>

\* GET /healthz, lines 35-37
Healthz(r) ==
    /\ pc[r] = "idle"
    /\ route' = [route EXCEPT ![r] = "healthz"]
    /\ response' = Respond(r, HealthzResponse)
    /\ pc' = [pc EXCEPT ![r] = "done"]
    /\ UNCHANGED <<MODEL, OPENAI_API_KEY, client, upload, reads, calls, reply>>

\* POST /review without the `image` field: lines 48-49, image: UploadFile = File(...)
ReviewRejected(r) ==
    /\ pc[r] = "idle"
    /\ route' = [route EXCEPT ![r] = "review"]
    /\ upload' = [upload EXCEPT ![r] = NoField]
    /\ response' = Respond(r, ValidationErrorResponse)
    /\ pc' = [pc EXCEPT ![r] = "done"]
    /\ UNCHANGED <<MODEL, OPENAI_API_KEY, client, reads, calls, reply>>

\* POST /review with an upload, lines 49-57: from entry to the await of image.read()
ReviewEnter(r, up) ==
    /\ pc[r] = "idle"
    /\ route' = [route EXCEPT ![r] = "review"]
    /\ upload' = [upload EXCEPT ![r] = up]
    /\ IF ClientMissing
       THEN /\ response' = Respond(r, NotInitializedResponse)
            /\ pc' = [pc EXCEPT ![r] = "done"]
       ELSE /\ response' = response
            /\ pc' = [pc EXCEPT ![r] = "reading"]
    /\ UNCHANGED <<MODEL, OPENAI_API_KEY, client, reads, calls, reply>>

\* POST /review, lines 57-95: from the completion of image.read() to the response.
\* rep is what the collaborator does if it is called; the call is synchronous.
ReviewResume(r, rep) ==
    /\ pc[r] = "reading"
    /\ reads' = [reads EXCEPT ![r] = @ + 1]
    /\ pc' = [pc EXCEPT ![r] = "done"]
    /\ IF upload[r].kind = "raises"
       THEN /\ response' = Respond(r, ExceptionResponse(upload[r]))
            /\ UNCHANGED <<calls, reply>>
       ELSE IF IsEmptyUpload(upload[r].data)
       THEN /\ response' = Respond(r, EmptyUploadResponse)
            /\ UNCHANGED <<calls, reply>>
       ELSE IF client = None
       THEN \* client.chat on None raises AttributeError before any call is made
            /\ response' = Respond(r,
                   ExceptionResponse(Raises("'NoneType' object has no attribute 'chat'")))
            /\ UNCHANGED <<calls, reply>>
       ELSE /\ calls' = [calls EXCEPT ![r] =
                   InvokeModel(@, CreateArgs(MODEL, DataUrl(EnsurePng(upload[r].data))))]
            /\ reply' = [reply EXCEPT ![r] = rep]
            /\ IF rep.kind = "raises"
               THEN response' = Respond(r, ExceptionResponse(rep))
               ELSE IF ~TruthyText(ExtractHtml(rep.choices))
               THEN response' = Respond(r, NoContentResponse)
               ELSE response' = Respond(r, HtmlResponse(ExtractHtml(rep.choices)[1]))
    /\ UNCHANGED <<MODEL, OPENAI_API_KEY, client, route, upload>>

Next ==
    \E r \in Req :
        \/ Ping(r)
        \/ Healthz(r)
        \/ ReviewRejected(r)
        \/ \E up \in ReviewUploads : ReviewEnter(r, up)
        \/ \E rep \in Replies : ReviewResume(r, rep)

Spec == Init /\ [][Next]_vars

-----------------------------------------------------------------------------
(* Vocabulary of the properties.                                           *)

\* request r is a finished POST /review
ReviewDone(r) == pc[r] = "done" /\ route[r] = "review"

\* request r is a finished POST /review that carried an `image` field
UploadDone(r) == ReviewDone(r) /\ upload[r].kind \in {"raises", "bytes"}

\* request r is a finished POST /review whose upload was read as non-empty bytes
NonEmptyUpload(r) == upload[r].kind = "bytes" /\ Len(upload[r].data) > 0

EmptyUpload(r) == upload[r].kind = "bytes" /\ Len(upload[r].data) = 0

ClientInitialized == client /= None

\* the collaborator returned normally and its first candidate has non-empty content
FirstContentUsable(rep) ==
    /\ rep.kind = "returns"
    /\ Len(rep.choices) > 0
    /\ rep.choices[1].message /= None
    /\ rep.choices[1].message[1].content /= None
    /\ Len(rep.choices[1].message[1].content[1]) > 0

\* the collaborator returned normally with nothing usable in first place
FirstContentUnusable(rep) ==
    /\ rep.kind = "returns"
    /\ \/ Len(rep.choices) = 0
       \/ rep.choices[1].message = None
       \/ rep.choices[1].message[1].content = None
       \/ rep.choices[1].message[1].content[1] = <<>>

\* content enclosed in the fixed container
InContainer(content) ==
    <<DivOpen, "\n">> \o Spaces(10) \o content \o <<"\n">> \o Spaces(8) \o <<DivClose>>

IsErrorBody(b) == DOMAIN b = {"error"}
IsHtmlBody(b) == DOMAIN b = {"html"}

B64Index(c) == CHOOSE i \in 0..63 : B64Alphabet[i + 1] = c

RECURSIVE B64Decode(_)
\* inverse of base64 encoding, on a sequence of characters
B64Decode(s) ==
    IF Len(s) < 4 THEN <<>>
    ELSE LET i1 == B64Index(s[1])
             i2 == B64Index(s[2])
             rest == B64Decode(SubSeq(s, 5, Len(s)))
         IN IF s[3] = B64Pad THEN <<i1 * 4 + i2 \div 16>>
            ELSE IF s[4] = B64Pad
            THEN <<i1 * 4 + i2 \div 16, (i2 % 16) * 16 + B64Index(s[3]) \div 4>>
            ELSE <<i1 * 4 + i2 \div 16,
                   (i2 % 16) * 16 + B64Index(s[3]) \div 4,
                   (B64Index(s[3]) % 4) * 64 + B64Index(s[4])>> \o rest

\* the image reference of an outbound call
ImageUrl(args) == args.messages[1].content[2].url

-----------------------------------------------------------------------------
(* C1 *)

\* C1: a non-empty upload, an initialized client and a reply whose first candidate
\* has non-empty content give status 200 with `html` equal to that content,
\* unmodified, inside the fixed <div> container.
C1_SuccessWrapsContent ==
    \A r \in Req :
        (ReviewDone(r) /\ NonEmptyUpload(r) /\ ClientInitialized
            /\ FirstContentUsable(reply[r]))
        => /\ Len(response[r]) = 1
           /\ response[r][1].status = 200
           /\ IsHtmlBody(response[r][1].body)
           /\ response[r][1].body.html
                = InContainer(reply[r].choices[1].message[1].content[1])

\* a request answered 200 for a reply that starts and ends with whitespace
C1_Witness ==
    \E r \in Req :
        /\ ReviewDone(r) /\ NonEmptyUpload(r) /\ ClientInitialized
        /\ reply[r] = Returns(<<Candidate(Some(Content2))>>)
        /\ response[r][1].status = 200

-----------------------------------------------------------------------------
(* C2 *)

\* C2 as stated: an empty upload yields status 400 with an error body whether or
\* not the client is initialized.
C2_EmptyAlways400 ==
    \A r \in Req :
        (ReviewDone(r) /\ EmptyUpload(r))
        => /\ Len(response[r]) = 1
           /\ response[r][1].status = 400
           /\ IsErrorBody(response[r][1].body)

\* C2 amended: an empty upload yields status 400 with the empty-upload error when
\* the client is initialized, and the client-not-initialized 500 when it is not.
C2_EmptyUpload400WhenInitialized ==
    \A r \in Req :
        (ReviewDone(r) /\ EmptyUpload(r))
        => IF ClientInitialized
           THEN response[r] = <<[status |-> 400, body |-> [error |-> "Empty image upload."]]>>
           ELSE response[r] = <<NotInitializedResponse>>

C2_Witness ==
    \E r \in Req :
        /\ ReviewDone(r) /\ EmptyUpload(r) /\ ClientInitialized
        /\ reads[r] = 1
        /\ response[r][1].status = 400

-----------------------------------------------------------------------------
(* C3 *)

\* C3: with no client, every POST /review that carries an upload (empty, malformed
\* or valid) is answered 500 client-not-initialized, with the upload never read
\* and the collaborator never called.
C3_NoClientAlways500 ==
    ~ClientInitialized =>
        \A r \in Req :
            (route[r] = "review" /\ upload[r].kind \in {"raises", "bytes"})
            => /\ pc[r] = "done"
               /\ response[r] =
                    <<[status |-> 500,
                       body |-> [error |-> "OpenAI client not initialized. Check OPENAI_API_KEY."]]>>
               /\ reads[r] = 0
               /\ calls[r] = <<>>
               /\ reply[r] = NoReply

\* a valid image refused although a credential is present (the constructor raised)
C3_Witness ==
    /\ ~ClientInitialized
    /\ TruthyStr(OPENAI_API_KEY)
    /\ \E r \in Req :
          /\ ReviewDone(r)
          /\ upload[r] = BytesUpload(<<137, 80, 78, 71, 6, 10, 10>>)
          /\ response[r][1].status = 500

-----------------------------------------------------------------------------
(* C4 *)

\* C4: a non-empty upload, an initialized client and a normal return with zero
\* candidates, or a first candidate whose message or content is missing or empty,
\* give status 502 with the model-returned-no-content error.
C4_EmptyReply502 ==
    \A r \in Req :
        (ReviewDone(r) /\ NonEmptyUpload(r) /\ ClientInitialized
            /\ FirstContentUnusable(reply[r]))
        => /\ response[r] =
                <<[status |-> 502, body |-> [error |-> "Model returned no content."]]>>
           /\ response[r][1].status \notin {200, 500}

\* the first candidate is empty while a second one has content
C4_Witness ==
    \E r \in Req :
        /\ ReviewDone(r) /\ NonEmptyUpload(r) /\ ClientInitialized
        /\ reply[r] = Returns(<<Candidate(Some(<<>>)), Candidate(Some(Content1))>>)
        /\ response[r][1].status = 502

-----------------------------------------------------------------------------
(* C5 *)

\* C5: an exception raised while reading the upload or calling the collaborator
\* ends in exactly one response, status 500, whose `error` is the exception's
\* message; normalisation, encoding and prompt building raise nothing.
C5_ExceptionBecomes500 ==
    \A r \in Req :
        /\ (ReviewDone(r) /\ upload[r].kind = "raises" /\ reads[r] = 1)
           => response[r] = <<[status |-> 500, body |-> [error |-> upload[r].msg]]>>
        /\ (ReviewDone(r) /\ reply[r].kind = "raises")
           => response[r] = <<[status |-> 500, body |-> [error |-> reply[r].msg]]>>
        /\ UploadDone(r) => Len(response[r]) = 1

C5_Witness ==
    \E r, q \in Req :
        /\ ReviewDone(r) /\ reply[r] = Raises("Request timed out.")
        /\ response[r][1].body.error = "Request timed out."
        /\ ReviewDone(q) /\ upload[q].kind = "raises" /\ reads[q] = 1
        /\ response[q][1].status = 500

-----------------------------------------------------------------------------
(* C6 *)

ContractShape(resp) ==
    \/ resp.status = 200 /\ IsHtmlBody(resp.body)
    \/ resp.status \in {400, 500, 502} /\ IsErrorBody(resp.body)

\* C6 as stated: every finished POST /review, a request without the `image` field
\* included, has exactly one response, which is 200 with only `html` or one of
\* 400, 500, 502 with only `error`.
C6_EveryReviewInContract ==
    \A r \in Req :
        ReviewDone(r) => Len(response[r]) = 1 /\ ContractShape(response[r][1])

\* C6 amended: every finished POST /review that carries an `image` field has
\* exactly one response, of the contract's shape (`html` exactly when the status
\* is 200); a request without the field is answered by the framework with
\* status 422 and a `detail` body, and review() does not run.
C6_UploadsInContract ==
    \A r \in Req :
        /\ UploadDone(r)
           => /\ Len(response[r]) = 1
              /\ ContractShape(response[r][1])
              /\ ("html" \in DOMAIN response[r][1].body) <=> (response[r][1].status = 200)
        /\ (ReviewDone(r) /\ upload[r].kind = "nofield")
           => /\ Len(response[r]) = 1
              /\ response[r][1].status = 422
              /\ DOMAIN response[r][1].body = {"detail"}
              /\ reads[r] = 0 /\ calls[r] = <<>>
        /\ (route[r] = "review" /\ pc[r] /= "done") => response[r] = <<>>

C6_Witness ==
    \E r, q \in Req :
        /\ UploadDone(r) /\ response[r][1].status = 502
        /\ ReviewDone(q) /\ upload[q].kind = "nofield" /\ response[q][1].status = 422

-----------------------------------------------------------------------------
(* C7 *)

\* C7 as stated: whenever the client is not initialized, /ping reports
\* has_api_key false.
C7_NoClientPingFalse ==
    ~ClientInitialized =>
        \A r \in Req :
            (pc[r] = "done" /\ route[r] = "ping")
            => response[r][1].body.has_api_key = FALSE

\* C7 amended: /ping reports whether a credential was present at startup; when
\* the client is uninitialized because the credential is unset or empty, it
\* reports has_api_key false, and when construction failed with a credential
\* present it reports true.
C7_PingReportsCredential ==
    /\ ~TruthyStr(OPENAI_API_KEY) => ~ClientInitialized
    /\ \A r \in Req :
          (pc[r] = "done" /\ route[r] = "ping")
          => /\ Len(response[r]) = 1
             /\ response[r][1].status = 200
             /\ response[r][1].body.has_api_key = TruthyStr(OPENAI_API_KEY)
             /\ (OPENAI_API_KEY \in {None, Some("")})
                  => response[r][1].body.has_api_key = FALSE

C7_Witness ==
    /\ ~ClientInitialized
    /\ OPENAI_API_KEY = Some("")
    /\ \E r \in Req :
          /\ pc[r] = "done" /\ route[r] = "ping"
          /\ response[r][1].body.has_api_key = FALSE

-----------------------------------------------------------------------------
(* C8 *)

\* C8: a POST /review makes at most one collaborator call: exactly one when the
\* client is initialized and the upload is non-empty, none when it is answered
\* with the client-not-initialized 500 or the empty-upload 400, and still one
\* after the collaborator raised or returned nothing usable.
C8_AtMostOneCall ==
    \A r \in Req :
        /\ Len(calls[r]) <= 1
        /\ ReviewDone(r)
           => /\ (Len(calls[r]) = 1) <=> (ClientInitialized /\ NonEmptyUpload(r))
              /\ response[r] \in {<<NotInitializedResponse>>, <<EmptyUploadResponse>>}
                   => Len(calls[r]) = 0
              /\ (reply[r].kind = "raises" \/ FirstContentUnusable(reply[r]))
                   => Len(calls[r]) = 1

C8_Witness ==
    \E r, q \in Req :
        /\ ReviewDone(r) /\ reply[r].kind = "raises" /\ Len(calls[r]) = 1
        /\ ReviewDone(q) /\ EmptyUpload(q) /\ ClientInitialized /\ Len(calls[q]) = 0

-----------------------------------------------------------------------------
(* C9 *)

\* C9: bytes that do not decode as an image pass through ensure_png unchanged,
\* and the request goes on to its single collaborator call with those bytes
\* base64-embedded under the MIME type image/png, the MIME type also used for
\* decodable uploads.
C9_UndecodablePassedThrough ==
    \A r \in Req :
        (ReviewDone(r) /\ NonEmptyUpload(r) /\ ClientInitialized)
        => /\ Len(calls[r]) = 1
           /\ ImageUrl(calls[r][1])[1] = "data:image/png;base64,"
           /\ ImageOpen(upload[r].data) = None
                => /\ B64Decode(Tail(ImageUrl(calls[r][1]))) = upload[r].data
                   /\ reply[r] /= NoReply
                   /\ response[r][1].status /= 400

\* b"not an image" is sent as data:image/png;base64,bm90IGFuIGltYWdl
C9_Witness ==
    \E r \in Req :
        /\ ReviewDone(r) /\ ClientInitialized
        /\ upload[r] = BytesUpload(NotAnImage)
        /\ Len(calls[r]) = 1
        /\ ImageUrl(calls[r][1]) =
             <<"data:image/png;base64,",
               "b", "m", "9", "0", "I", "G", "F", "u", "I", "G", "l", "t", "Y", "W", "d", "l">>

-----------------------------------------------------------------------------
(* C10 *)

\* the response of POST /review as a function of the startup configuration, the
\* request's own upload and the reply to its own call
ReviewOutcome(cl, up, rep) ==
    IF cl = None THEN NotInitializedResponse
    ELSE IF up.kind = "raises" THEN [status |-> 500, body |-> [error |-> up.msg]]
    ELSE IF Len(up.data) = 0 THEN EmptyUploadResponse
    ELSE IF rep.kind = "raises" THEN [status |-> 500, body |-> [error |-> rep.msg]]
    ELSE IF FirstContentUsable(rep)
    THEN [status |-> 200,
          body |-> [html |-> InContainer(rep.choices[1].message[1].content[1])]]
    ELSE NoContentResponse

OwnFields(r) == <<pc[r], route[r], upload[r], reads[r], calls[r], reply[r], response[r]>>

Independent ==
    \A r \in Req :
        UploadDone(r) => response[r] = <<ReviewOutcome(client, upload[r], reply[r])>>

\* C10: no handler step changes client, OPENAI_API_KEY or MODEL; a step changes
\* the fields of one request only and never those of a finished request; and the
\* response of each POST /review is determined by the startup configuration, its
\* own upload and the reply to its own call.
C10_ReadOnlyConfigIndependentRequests ==
    [][ /\ client' = client /\ OPENAI_API_KEY' = OPENAI_API_KEY /\ MODEL' = MODEL
        /\ \A r, q \in Req :
              (r /= q /\ OwnFields(r)' /= OwnFields(r)) => OwnFields(q)' = OwnFields(q)
        /\ \A r \in Req : pc[r] = "done" => OwnFields(r)' = OwnFields(r)
        /\ Independent' ]_vars

\* two reviews of the same upload, interleaved, end differently because their
\* own replies differ
C10_Witness ==
    /\ ClientInitialized
    /\ \E r, q \in Req :
          /\ r /= q
          /\ UploadDone(r) /\ UploadDone(q)
          /\ upload[r] = upload[q]
          /\ response[r][1].status = 200
          /\ response[q][1].status = 502

====
